---- MODULE Spec2Model ----
(***************************************************************************)
(* Model of the smart-cropping core of opus-video-service:                 *)
(*   SmoothedCameraman and SpeakerTracker (features/cropping/tracking.py,  *)
(*   duplicated in core/cropper.py), and the two frame pipelines that use  *)
(*   them (main.py process_single_clip, features/cropping/service.py       *)
(*   CroppingService.crop_video_to_vertical), and the scene classifier     *)
(*   analyze_scenes_strategy (core/scenes.py, features/cropping/scenes.py).*)
(*                                                                         *)
(* Numbers.  The camera centres are Python floats that only ever hold      *)
(* multiples of 1/4 pixel (integers, halves of integers, and the           *)
(* safe-zone radius crop_width * 0.25), so they are stored exactly as      *)
(* integers counting quarter pixels (Q units per pixel).  Pixel boxes are  *)
(* integers, as in the source.                                             *)
(***************************************************************************)
EXTENDS Integers, Sequences, FiniteSets, TLC

VARIABLES cam, camLog, trk, trkLog, run, sink, frameLog, scn

camVars == <<cam, camLog>>

trkVars == <<trk, trkLog>>

pipeVars == <<run, sink, frameLog, scn>>

vars == <<cam, camLog, trk, trkLog, run, sink, frameLog, scn>>

----------------------------------------------------------------------------
(* Generic helpers *)

\* Python's None (and an absent box); comparable with the 4-tuples used for boxes.
None == <<>>

\* Quarter-pixel units per pixel used for the float-valued centre fields.
Q == 4

Abs(n) == IF n < 0 THEN -n ELSE n

\* Python int() of the float n/d (d > 0): truncation toward zero.
IntTrunc(n, d) == IF n >= 0 THEN n \div d ELSE -((-n) \div d)

\* ceil(n / d) for n >= 0, d > 0
CeilDiv(n, d) == (n + d - 1) \div d

Max(a, b) == IF a > b THEN a ELSE b

Min(a, b) == IF a < b THEN a ELSE b

----------------------------------------------------------------------------
(* SmoothedCameraman *)

\* speed = 15.0  (fast re-frame), pixels per call
FastSpeed == 15

\* speed = 3.0   (slow, steady pan), pixels per call
SlowSpeed == 3

\* Construction.  aspect_ratio is 9/16; crop_width = int(crop_height * 9/16),
\* narrowed to the video width when the video is narrower than that.
SmoothedCameraman(video_width, video_height) ==
    LET w0 == IntTrunc(video_height * 9, 16)
        cw == IF w0 > video_width THEN video_width ELSE w0
        ch == IF w0 > video_width THEN IntTrunc(cw * 16, 9) ELSE video_height
    IN  [ video_width      |-> video_width,
          video_height     |-> video_height,
          crop_width       |-> cw,
          crop_height      |-> ch,
          current_center_x |-> (Q * video_width) \div 2,
          target_center_x  |-> (Q * video_width) \div 2,
          safe_zone_radius |-> cw ]      \* crop_width * 0.25 pixels = cw quarter pixels

MutUpdateTargetLeftEdge(c, face_box) ==
    IF face_box # None
    THEN [c EXCEPT !.target_center_x = Q * face_box[1]]
    ELSE c

MutUpdateTargetNoGuard(c, face_box) ==
    IF face_box = None THEN [c EXCEPT !.target_center_x = 0]
    ELSE [c EXCEPT !.target_center_x = Q * face_box[1] + (Q * face_box[3]) \div 2]

\* update_target: a box sets the target to its horizontal centre x + w/2;
\* None leaves the target alone.
update_target(c, face_box) ==
    IF face_box # None
    THEN [c EXCEPT !.target_center_x = Q * face_box[1] + (Q * face_box[3]) \div 2]
    ELSE c

\* half_crop = crop_width / 2, in quarter pixels
HalfCrop(c) == (Q * c.crop_width) \div 2

\* The pan speed the else-branch of get_crop_box picks for a difference diff
\* (quarter pixels): 15.0 beyond half a crop width, 3.0 otherwise.
PanSpeed(c, diff) ==
    IF 2 * Abs(diff) > Q * c.crop_width THEN FastSpeed ELSE SlowSpeed

MutPanStepNoDeadZone(c) ==
    LET diff == c.target_center_x - c.current_center_x
        direction == IF diff > 0 THEN 1 ELSE -1
        moved == c.current_center_x + direction * PanSpeed(c, diff) * Q
        new_diff == c.target_center_x - moved
    IN  IF diff = 0 THEN c.current_center_x
        ELSE IF (direction = 1 /\ new_diff < 0) \/ (direction = -1 /\ new_diff > 0)
             THEN c.target_center_x
             ELSE moved

MutPanStepOneSpeed(c) ==
    LET diff == c.target_center_x - c.current_center_x
    IN  IF Abs(diff) > c.safe_zone_radius
        THEN LET direction == IF diff > 0 THEN 1 ELSE -1
                 moved == c.current_center_x + direction * SlowSpeed * Q
                 new_diff == c.target_center_x - moved
             IN  IF (direction = 1 /\ new_diff < 0) \/ (direction = -1 /\ new_diff > 0)
                 THEN c.target_center_x
                 ELSE moved
        ELSE c.current_center_x

MutPanStepCreep(c) ==
    LET diff == c.target_center_x - c.current_center_x
    IN  IF Abs(diff) > c.safe_zone_radius
        THEN LET direction == IF diff > 0 THEN 1 ELSE -1
                 moved == c.current_center_x + direction * Q
                 new_diff == c.target_center_x - moved
             IN  IF (direction = 1 /\ new_diff < 0) \/ (direction = -1 /\ new_diff > 0)
                 THEN c.target_center_x
                 ELSE moved
        ELSE c.current_center_x

MutPanStepOvershoot(c) ==
    LET diff == c.target_center_x - c.current_center_x
    IN  IF Abs(diff) > c.safe_zone_radius
        THEN c.current_center_x + (IF diff > 0 THEN 1 ELSE -1) * PanSpeed(c, diff) * Q
        ELSE c.current_center_x

\* The non-snap branch of get_crop_box: the new centre before the frame clamp.
PanStep(c) ==
    LET diff == c.target_center_x - c.current_center_x
    IN  IF Abs(diff) > c.safe_zone_radius
        THEN LET direction == IF diff > 0 THEN 1 ELSE -1
                 speed == PanSpeed(c, diff)
                 moved == c.current_center_x + direction * speed * Q
                 new_diff == c.target_center_x - moved
             IN  IF (direction = 1 /\ new_diff < 0) \/ (direction = -1 /\ new_diff > 0)
                 THEN c.target_center_x
                 ELSE moved
        ELSE c.current_center_x

MutClampLeftOnly(c, x) ==
    IF x - HalfCrop(c) < 0 THEN HalfCrop(c) ELSE x

\* "Clamp center": the two ifs, in order.
ClampCenter(c, x) ==
    LET half_crop == HalfCrop(c)
        a == IF x - half_crop < 0 THEN half_crop ELSE x
    IN  IF a + half_crop > Q * c.video_width THEN Q * c.video_width - half_crop ELSE a

\* The returned (x1, y1, x2, y2)
CropBox(c) ==
    LET half_crop == HalfCrop(c)
        x1 == IntTrunc(c.current_center_x - half_crop, Q)
        x2 == IntTrunc(c.current_center_x + half_crop, Q)
    IN  << Max(0, x1), 0, Min(c.video_width, x2), c.video_height >>

MutClampOnlyOnSnap(c, force_snap) ==
    LET c2 == [c EXCEPT !.current_center_x =
                   IF force_snap THEN ClampCenter(c, c.target_center_x) ELSE PanStep(c)]
    IN  [cam |-> c2, box |-> CropBox(c2)]

MutGetCropBoxNoSnap(c, force_snap) ==
    LET c2 == [c EXCEPT !.current_center_x = ClampCenter(c, PanStep(c))]
    IN  [cam |-> c2, box |-> CropBox(c2)]

\* get_crop_box: the camera after the call and the box it returns.
get_crop_box(c, force_snap) ==
    LET moved == IF force_snap THEN c.target_center_x ELSE PanStep(c)
        c2 == [c EXCEPT !.current_center_x = ClampCenter(c, moved)]
    IN  [cam |-> c2, box |-> CropBox(c2)]

----------------------------------------------------------------------------
(* SpeakerTracker *)

\* The clip the tracker and the pipelines are run on: (width, height).
TrackVideo == <<40, 22>>

\* Bound on the number of get_target calls in one run.
MaxTrackCalls == 3

\* active_speaker_id = None, and the "no match" value of best_match_id.
NoId == -1

RECURSIVE Pow(_, _)
Pow(b, n) == IF n = 0 THEN 1 ELSE b * Pow(b, n - 1)

\* Scores are Python floats s; the model holds s * ScoreOne, an integer as long
\* as no score is decayed more than MaxTrackCalls times: a raw score is
\* score / (width * width * 0.05) = 20 * score / width^2 and each decay
\* multiplies by 0.85 = 17/20.
ScoreOne == ((TrackVideo[1] * TrackVideo[1]) \div 20) * Pow(20, MaxTrackCalls)

\* raw_score = cand['score'] / (width * width * 0.05)
RawScore(score, width) == score * ((20 * ScoreOne) \div (width * width))

\* __init__(stabilization_frames=15, cooldown_frames=30)
SpeakerTracker ==
    [ active_speaker_id       |-> NoId,
      speaker_scores          |-> << >>,     \* {id: score}, a function on the ids present
      locked_counter          |-> 0,
      stabilization_threshold |-> 15,
      switch_cooldown         |-> 30,
      last_switch_frame       |-> -1000,
      next_id                 |-> 0,
      known_faces             |-> << >> ]

\* center_x = x + w / 2, in quarter pixels
FaceCenter(box) == Q * box[1] + (Q * box[3]) \div 2

\* The inner loop over known_faces for one face: the id of the closest known
\* face seen at most 30 frames ago and strictly nearer than width * 0.15, or
\* NoId.  Distances are compared times 100 so that width * 0.15 stays whole:
\* m holds 100 * min_dist in quarter pixels.
RECURSIVE BestMatchFrom(_, _, _, _, _, _)
BestMatchFrom(kfs, i, center_x, frame_number, m, best) ==
    IF i > Len(kfs) THEN best
    ELSE LET kf == kfs[i]
             dist == Abs(center_x - kf.center)
         IN  IF frame_number - kf.last_frame > 30
             THEN BestMatchFrom(kfs, i + 1, center_x, frame_number, m, best)
             ELSE IF 100 * dist < m
                  THEN BestMatchFrom(kfs, i + 1, center_x, frame_number, 100 * dist, kf.id)
                  ELSE BestMatchFrom(kfs, i + 1, center_x, frame_number, m, best)

MutBestMatchNoWindow(kfs, center_x, frame_number, width) ==
    BestMatchFrom(kfs, 1, center_x, frame_number - 1000, Q * width * 15, NoId)

BestMatch(kfs, center_x, frame_number, width) ==
    BestMatchFrom(kfs, 1, center_x, frame_number, Q * width * 15, NoId)

MutMatchFaceReuseId(t, cands, face, frame_number, width) ==
    LET center_x == FaceCenter(face.box)
        found == BestMatch(t.known_faces, center_x, frame_number, width)
        id == IF found = NoId THEN t.next_id ELSE found
        kept == SelectSeq(t.known_faces, LAMBDA kf : kf.id # id)
    IN  [ trk |-> [t EXCEPT !.known_faces =
                         Append(kept, [id |-> id, center |-> center_x,
                                       last_frame |-> frame_number])],
          cands |-> Append(cands, [id |-> id, box |-> face.box, score |-> face.score]) ]

\* Step 1 of get_target for one face: match it or allocate next_id, replace
\* the identity's record in known_faces, append the candidate.
MatchFace(t, cands, face, frame_number, width) ==
    LET center_x == FaceCenter(face.box)
        found == BestMatch(t.known_faces, center_x, frame_number, width)
        id == IF found = NoId THEN t.next_id ELSE found
        kept == SelectSeq(t.known_faces, LAMBDA kf : kf.id # id)
    IN  [ trk |-> [t EXCEPT !.next_id = IF found = NoId THEN @ + 1 ELSE @,
                            !.known_faces =
                                Append(kept, [id |-> id, center |-> center_x,
                                              last_frame |-> frame_number])],
          cands |-> Append(cands, [id |-> id, box |-> face.box, score |-> face.score]) ]

\* Step 1 for the faces i.. of face_candidates, in order.
RECURSIVE MatchFaces(_, _, _, _, _, _)
MatchFaces(t, cands, face_candidates, i, frame_number, width) ==
    IF i > Len(face_candidates) THEN [trk |-> t, cands |-> cands]
    ELSE LET r == MatchFace(t, cands, face_candidates[i], frame_number, width)
         IN  MatchFaces(r.trk, r.cands, face_candidates, i + 1, frame_number, width)

MutDecayKeepAll(scores) ==
    [pid \in DOMAIN scores |-> (scores[pid] * 17) \div 20]

\* Step 2, first loop: every score is multiplied by 0.85 and deleted when the
\* result is below 0.1.
DecayScores(scores) ==
    LET decayed == [pid \in DOMAIN scores |-> (scores[pid] * 17) \div 20]
        keep == { pid \in DOMAIN scores : ~(10 * decayed[pid] < ScoreOne) }
    IN  [pid \in keep |-> decayed[pid]]

\* speaker_scores.get(pid, 0)
ScoreGet(scores, pid) == IF pid \in DOMAIN scores THEN scores[pid] ELSE 0

\* Step 2, second loop: each candidate adds its raw score to its identity.
RECURSIVE AddScores(_, _, _, _)
AddScores(scores, cands, i, width) ==
    IF i > Len(cands) THEN scores
    ELSE LET pid == cands[i].id
             v == ScoreGet(scores, pid) + RawScore(cands[i].score, width)
         IN  AddScores([p \in DOMAIN scores \cup {pid} |->
                            IF p = pid THEN v ELSE scores[p]],
                       cands, i + 1, width)

\* total_score of a candidate in step 3, with the incumbency bonus
MutTotalScoreNoBonus(scores, active, pid) == ScoreGet(scores, pid)

TotalScore(scores, active, pid) ==
    IF pid = active THEN 3 * ScoreGet(scores, pid) ELSE ScoreGet(scores, pid)

\* Step 3: the index of best_candidate (0 for None); max_score starts at -1
\* and only a strictly greater total replaces the best so far.
RECURSIVE BestCandidateFrom(_, _, _, _, _, _)
BestCandidateFrom(cands, i, scores, active, max_score, best) ==
    IF i > Len(cands) THEN best
    ELSE LET total_score == TotalScore(scores, active, cands[i].id)
         IN  IF total_score > max_score
             THEN BestCandidateFrom(cands, i + 1, scores, active, total_score, i)
             ELSE BestCandidateFrom(cands, i + 1, scores, active, max_score, best)

MutBestCandidateFirst(cands, scores, active) ==
    IF Len(cands) > 0 THEN 1 ELSE 0

BestCandidate(cands, scores, active) ==
    BestCandidateFrom(cands, 1, scores, active, -ScoreOne, 0)

\* next((c for c in current_candidates if c['id'] == active_speaker_id), None):
\* the index of the first such candidate, 0 for None
RECURSIVE FirstWithId(_, _, _)
FirstWithId(cands, i, id) ==
    IF i > Len(cands) THEN 0
    ELSE IF cands[i].id = id THEN i ELSE FirstWithId(cands, i + 1, id)

MutDecideSwitchNoCooldown(t, cands, best, frame_number) ==
    LET target_id == cands[best].id
    IN  IF target_id = t.active_speaker_id
        THEN [ trk |-> [t EXCEPT !.locked_counter = @ + 1], box |-> cands[best].box ]
        ELSE [ trk |-> [t EXCEPT !.active_speaker_id = target_id,
                                 !.last_switch_frame = frame_number,
                                 !.locked_counter = 0],
               box |-> cands[best].box ]

MutDecideSwitchHoldAbsent(t, cands, best, frame_number) ==
    LET target_id == cands[best].id
    IN  IF target_id = t.active_speaker_id
        THEN [ trk |-> [t EXCEPT !.locked_counter = @ + 1], box |-> cands[best].box ]
        ELSE IF frame_number - t.last_switch_frame < t.switch_cooldown
             THEN LET old == FirstWithId(cands, 1, t.active_speaker_id)
                  IN  [ trk |-> t, box |-> IF old # 0 THEN cands[old].box ELSE None ]
             ELSE [ trk |-> [t EXCEPT !.active_speaker_id = target_id,
                                      !.last_switch_frame = frame_number,
                                      !.locked_counter = 0],
                    box |-> cands[best].box ]

MutDecideSwitchHoldReturnsBest(t, cands, best, frame_number) ==
    LET target_id == cands[best].id
        old == FirstWithId(cands, 1, t.active_speaker_id)
    IN  IF target_id = t.active_speaker_id
        THEN [ trk |-> [t EXCEPT !.locked_counter = @ + 1], box |-> cands[best].box ]
        ELSE IF frame_number - t.last_switch_frame < t.switch_cooldown /\ old # 0
             THEN [ trk |-> t, box |-> cands[best].box ]
             ELSE [ trk |-> [t EXCEPT !.active_speaker_id = target_id,
                                      !.last_switch_frame = frame_number,
                                      !.locked_counter = 0],
                    box |-> cands[best].box ]

MutDecideSwitchStaleFrame(t, cands, best, frame_number) ==
    LET target_id == cands[best].id
        old == FirstWithId(cands, 1, t.active_speaker_id)
    IN  IF target_id = t.active_speaker_id
        THEN [ trk |-> [t EXCEPT !.locked_counter = @ + 1], box |-> cands[best].box ]
        ELSE IF frame_number - t.last_switch_frame < t.switch_cooldown /\ old # 0
             THEN [ trk |-> t, box |-> cands[old].box ]
             ELSE [ trk |-> [t EXCEPT !.active_speaker_id = target_id,
                                      !.locked_counter = 0],
                    box |-> cands[best].box ]

\* Step 4 (best_candidate is not None): stay, reject the switch, or switch.
DecideSwitch(t, cands, best, frame_number) ==
    LET target_id == cands[best].id
        old == FirstWithId(cands, 1, t.active_speaker_id)
    IN  IF target_id = t.active_speaker_id
        THEN [ trk |-> [t EXCEPT !.locked_counter = @ + 1], box |-> cands[best].box ]
        ELSE IF frame_number - t.last_switch_frame < t.switch_cooldown /\ old # 0
             THEN [ trk |-> t, box |-> cands[old].box ]
             ELSE [ trk |-> [t EXCEPT !.active_speaker_id = target_id,
                                      !.last_switch_frame = frame_number,
                                      !.locked_counter = 0],
                    box |-> cands[best].box ]

MutGetTargetForgetOnEmpty(t, face_candidates, frame_number, width) ==
    LET m == MatchFaces(t, << >>, face_candidates, 1, frame_number, width)
        scores == AddScores(DecayScores(t.speaker_scores), m.cands, 1, width)
        t2 == [m.trk EXCEPT !.speaker_scores = scores]
        best == BestCandidate(m.cands, scores, t2.active_speaker_id)
    IN  IF Len(m.cands) = 0
        THEN [trk |-> [t2 EXCEPT !.active_speaker_id = NoId, !.locked_counter = 0],
              box |-> None, cands |-> m.cands]
        ELSE LET d == DecideSwitch(t2, m.cands, best, frame_number)
             IN  [trk |-> d.trk, box |-> d.box, cands |-> m.cands]

\* get_target: the tracker after the call, the box returned (or None) and the
\* current_candidates list the call built.
get_target(t, face_candidates, frame_number, width) ==
    LET m == MatchFaces(t, << >>, face_candidates, 1, frame_number, width)
        scores == AddScores(DecayScores(t.speaker_scores), m.cands, 1, width)
        t2 == [m.trk EXCEPT !.speaker_scores = scores]
        best == BestCandidate(m.cands, scores, t2.active_speaker_id)
    IN  IF Len(m.cands) = 0 THEN [trk |-> t2, box |-> None, cands |-> m.cands]
        ELSE IF best # 0
             THEN LET d == DecideSwitch(t2, m.cands, best, frame_number)
                  IN  [trk |-> d.trk, box |-> d.box, cands |-> m.cands]
             ELSE [trk |-> t2, box |-> None, cands |-> m.cands]

\* trkLog records the last get_target call (not program state):
\*   calls                number of calls so far
\*   frame_number, faces  its arguments
\*   pre                  the tracker before the call
\*   cands, box           the current_candidates it built, the box it returned
\*   assigned             every id given to a candidate by an earlier call
TrkLogInit ==
    [ calls |-> 0, frame_number |-> -1, faces |-> << >>, pre |-> SpeakerTracker,
      cands |-> << >>, box |-> None, assigned |-> {} ]

----------------------------------------------------------------------------
(* analyze_scenes_strategy, in its two versions: features/cropping/scenes.py *)
(* (loop inside try/except/finally) and core/scenes.py (no handler), which   *)
(* is the one main.py imports.                                               *)

\* Bound on the number of scenes handed to analyze_scenes_strategy.
MaxScenes == 3

\* Bound on the number of faces face_detection_fn finds in a sample frame.
MaxFaces == 2

\* Scenes of the analysed clip: n contiguous scenes of twelve frames.
SceneList(n) == [i \in 1..n |-> <<(i - 1) * 12, i * 12>>]

\* frames_to_check of a scene (start, end)
SampleFrames(scene) ==
    << scene[1] + 5, IntTrunc(scene[1] + scene[2], 2), scene[2] - 5 >>

\* What happens at one sample frame: cap.read() returns no frame, or
\* face_detection_fn raises, or it returns a list of faces candidates.
SampleResults ==
    { [ret |-> FALSE, raises |-> FALSE, faces |-> 0],
      [ret |-> TRUE, raises |-> TRUE, faces |-> 0] }
    \cup { [ret |-> TRUE, raises |-> FALSE, faces |-> n] : n \in 0..MaxFaces }

\* The three samples of one scene
SceneObs == [1..3 -> SampleResults]

\* face_detection_fn raises at one of the samples of the scene.
SceneRaises(obs) == \E k \in 1..3 : obs[k].ret /\ obs[k].raises

\* face_counts: len(candidates) of every sample that was read, in order.
RECURSIVE FaceCounts(_, _)
FaceCounts(obs, k) ==
    IF k > Len(obs) THEN << >>
    ELSE IF obs[k].ret THEN <<obs[k].faces>> \o FaceCounts(obs, k + 1)
    ELSE FaceCounts(obs, k + 1)

\* sum(face_counts)
RECURSIVE SumSeq(_)
SumSeq(q) == IF Len(q) = 0 THEN 0 ELSE Head(q) + SumSeq(Tail(q))

MutClassifyHalfIsGeneral(face_counts) ==
    IF Len(face_counts) = 0 THEN "GENERAL"
    ELSE IF 10 * SumSeq(face_counts) > 12 * Len(face_counts)
            \/ 2 * SumSeq(face_counts) <= Len(face_counts)
         THEN "GENERAL" ELSE "TRACK"

\* "Decision Logic": avg_faces = 0 without counts, else sum / len; GENERAL
\* if avg_faces > 1.2 or avg_faces < 0.5, else TRACK.  With at most three
\* counts the quotient is never within rounding distance of 1.2 or 0.5
\* unless it equals 0.5, so the comparisons are made on the fractions.
Classify(face_counts) ==
    IF Len(face_counts) = 0 THEN "GENERAL"
    ELSE IF 10 * SumSeq(face_counts) > 12 * Len(face_counts)
            \/ 2 * SumSeq(face_counts) < Len(face_counts)
         THEN "GENERAL" ELSE "TRACK"

\* ['TRACK'] * n
Tracks(n) == [i \in 1..n |-> "TRACK"]

\* analyze_scenes_strategy at entry.  last_obs and face_counts record the last
\* scene analysed, raised_at the scene at which face_detection_fn raised and
\* kept the labels computed before it; they are not program state.
ScnStart(impl, scenes) ==
    [ impl |-> impl,               \* "features" or "core"
      pc |-> "start",
      outcome |-> "running",       \* "returned", "raised"
      scenes |-> scenes,
      opened |-> FALSE,
      capOpen |-> FALSE,
      strategies |-> << >>,
      last_obs |-> << >>,
      face_counts |-> << >>,
      raised_at |-> 0,
      kept |-> << >> ]

----------------------------------------------------------------------------
(* The frame pipelines: process_single_clip (main.py, vertical mode) and    *)
(* CroppingService.crop_video_to_vertical (features/cropping/service.py).  *)
(* One action is one step of the function; a loop iteration is one action. *)
(* What the outside world decides (whether a file opens, what the          *)
(* detectors return, whether a library call raises) is chosen with \E.     *)

\* Bound on the number of frames of the clip.
MaxFrames == MaxTrackCalls + 1

\* Clips tried: TrackVideo, and a clip one pixel high, whose crop_width is 0.
PipeVideos == { TrackVideo, <<TrackVideo[1], 1>> }

\* What detect_face_candidates returns for a frame
PipeFaceLists ==
    { << >>,
      << [box |-> <<6, 2, 3, 3>>, score |-> 9] >>,
      << [box |-> <<26, 2, 8, 8>>, score |-> 64] >>,
      << [box |-> <<6, 2, 3, 3>>, score |-> 9], [box |-> <<26, 2, 8, 8>>, score |-> 64] >>,
      \* a face in the middle whose raw score, 4 / 80, is below 0.1
      << [box |-> <<19, 2, 2, 2>>, score |-> 4] >> }

\* What detect_person_yolo returns for a frame
PersonBoxes == { None, <<30, 3, 6, 4>> }

\* Scene lists detect_scenes returns for a clip of n frames: none, the whole
\* clip, or two or three contiguous non-empty scenes.
ScenePlans(n) ==
    { << >> } \cup (IF n >= 1 THEN { << <<0, n>> >> } ELSE {})
              \cup { << <<0, k>>, <<k, n>> >> : k \in 1..(n - 1) }
              \cup { << <<0, p[1]>>, <<p[1], p[2]>>, <<p[2], n>> >> :
                         p \in { q \in (1..(n - 1)) \X (1..(n - 1)) : q[1] < q[2] } }

\* Lists of n strategy labels
StrategyLists(n) == [1..n -> {"TRACK", "GENERAL"}]

\* Where a frame iteration can raise: nowhere, in detect_face_candidates, in
\* detect_person_yolo, or in the write to the sink.
FaultPoints == { "none", "detect", "person", "write" }

\* target_width = 1080 of crop_video_to_vertical
SvcTargetWidth == 1080

\* target_height = 1920 of crop_video_to_vertical
SvcTargetHeight == 1920

\* The run before its first step.
RunInit(impl, video, nframes) ==
    [ impl |-> impl,
      pc |-> "start",
      outcome |-> "running",       \* "returned_true", "returned_false", "raised"
      video |-> video,             \* (width, height) of the source
      nframes |-> nframes,         \* frames the source holds
      scene_boundaries |-> << >>,
      strategies |-> << >>,
      frame_number |-> 0,          \* frame_number / current_frame_idx
      start_frame |-> 0,
      end_frame |-> 0,
      current_scene_index |-> 0,
      decoded |-> 0,               \* frames read successfully
      out_w |-> 0,
      out_h |-> 0,
      capOpen |-> FALSE,           \* the video source handle is held
      encOpen |-> FALSE,           \* the encoder handle is held
      enc_rc |-> 0,
      \* What the run met (not program state): the result of detect_scenes
      \* ("pending", "failed", "empty", "found"), a source that did not open,
      \* an encoder that failed, and the step at which the run raised.
      seg |-> "pending",
      open_failed |-> FALSE,
      enc_failed |-> FALSE,
      raised_at |-> "none" ]

\* frameLog records the last loop iteration (not program state).
FrameLogInit ==
    [ frame |-> -1, scene_index |-> 0, strategy |-> "none",
      ran_faces |-> FALSE, ran_target |-> FALSE, ran_person |-> FALSE,
      ran_crop |-> FALSE, force_snap |-> FALSE, target_box |-> None,
      crop_box |-> None, pre_cam |-> cam, pre_trk |-> trk, raised |-> FALSE,
      \* fault: where this iteration was made to raise; quiet: so far every
      \* frame had no face and no person and no detector raised.
      fault |-> "none", quiet |-> TRUE,
      \* current_scene_index before the iteration
      pre_scene_index |-> 0,
      \* the candidates handed to get_target, if it ran
      faces |-> << >> ]

----------------------------------------------------------------------------
(* The camera driven directly: any interleaving of update_target and       *)
(* get_crop_box calls on a freshly constructed SmoothedCameraman.          *)

\* (video_width, video_height) of the clips tried: a landscape clip whose crop
\* is narrower than the frame, and a portrait clip whose crop is the frame.
VideoSizes == { <<40, 22>>, <<12, 30>> }

\* Boxes handed to update_target: x from well left of the frame to its right
\* edge, even and odd widths (centres on whole and half pixels).
CamBoxXs == { -6, 0, 3, 9, 14, 19, 26, 33, 38 }

CamBoxWs == { 4, 5 }

CamBoxes == { <<x, 0, w, 4>> : x \in CamBoxXs, w \in CamBoxWs }

\* Saturation of the call counter kept in camLog.
CallCap == 16

\* camLog is the record of the calls made so far (not program state):
\*   op, force_snap, pre, box   the last call, the camera before it, its result
\*   prevOp, prevSnap, prevBox  the call before the last one
\*   diff0                      target - current at the last update_target
\*   calls                      number of get_crop_box(force_snap=False) calls
\*                              since then (saturating at CallCap), or -1
\*                              once a force_snap call has come in between
CamLogInit(c) ==
    [ op |-> "init", force_snap |-> FALSE, pre |-> c, box |-> None,
      prevOp |-> "init", prevSnap |-> FALSE, prevBox |-> None,
      diff0 |-> 0, calls |-> 0 ]

CamInit ==
    /\ \E size \in VideoSizes :
          /\ cam = SmoothedCameraman(size[1], size[2])
          /\ camLog = CamLogInit(cam)
    /\ trk = SpeakerTracker
    /\ trkLog = TrkLogInit
    /\ run = RunInit("none", <<cam.video_width, cam.video_height>>, 0)
    /\ sink = << >>
    /\ frameLog = FrameLogInit
    /\ scn = ScnStart("none", << >>)

CamUpdateTarget ==
    \E face_box \in CamBoxes \cup {None} :
        /\ cam' = update_target(cam, face_box)
        /\ camLog' = [ op |-> "update_target", force_snap |-> FALSE, pre |-> cam,
                       box |-> None,
                       prevOp |-> camLog.op, prevSnap |-> camLog.force_snap,
                       prevBox |-> camLog.box,
                       diff0 |-> cam'.target_center_x - cam'.current_center_x,
                       calls |-> 0 ]
        /\ UNCHANGED <<trkVars, pipeVars>>

CamGetCropBox ==
    \E force_snap \in BOOLEAN :
        LET r == get_crop_box(cam, force_snap)
        IN  /\ cam' = r.cam
            /\ camLog' = [ op |-> "get_crop_box", force_snap |-> force_snap,
                           pre |-> cam, box |-> r.box,
                           prevOp |-> camLog.op, prevSnap |-> camLog.force_snap,
                           prevBox |-> camLog.box,
                           diff0 |-> camLog.diff0,
                           calls |-> IF force_snap \/ camLog.calls < 0 THEN -1
                                     ELSE Min(camLog.calls + 1, CallCap) ]
            /\ UNCHANGED <<trkVars, pipeVars>>

CamNext == CamUpdateTarget \/ CamGetCropBox

CamSpec == CamInit /\ [][CamNext]_vars

----------------------------------------------------------------------------
(* The tracker driven directly: get_target called with increasing frame   *)
(* numbers and any list of up to two faces.                                *)

\* Faces the detector reports: a small face on the left (centre 7.5, score 9),
\* a face 4 pixels to its right (nearer than 0.15 * width = 6 pixels), and a
\* large face on the right (centre 30, score 64).
TrackFaces ==
    { [box |-> <<6, 2, 3, 3>>,   score |-> 9],
      [box |-> <<9, 2, 5, 4>>,   score |-> 20],
      [box |-> <<26, 2, 8, 8>>,  score |-> 64] }

\* face_candidates lists tried: none, one face, two different faces in either order
FaceLists ==
    {<< >>} \cup { <<f>> : f \in TrackFaces }
            \cup { <<p[1], p[2]>> : p \in { q \in TrackFaces \X TrackFaces : q[1] # q[2] } }

\* Gaps between the frame numbers of consecutive get_target calls
FrameSteps == { 1, 29, 30 }

TrkInit ==
    /\ trk = SpeakerTracker
    /\ trkLog = TrkLogInit
    /\ cam = SmoothedCameraman(TrackVideo[1], TrackVideo[2])
    /\ camLog = CamLogInit(cam)
    /\ run = RunInit("none", TrackVideo, 0)
    /\ sink = << >>
    /\ frameLog = FrameLogInit
    /\ scn = ScnStart("none", << >>)

TrkGetTarget ==
    /\ trkLog.calls < MaxTrackCalls
    /\ \E faces \in FaceLists, step \in FrameSteps :
        LET frame_number == IF trkLog.calls = 0 THEN 0 ELSE trkLog.frame_number + step
            r == get_target(trk, faces, frame_number, TrackVideo[1])
        IN  /\ trk' = r.trk
            /\ trkLog' = [ calls |-> trkLog.calls + 1,
                           frame_number |-> frame_number,
                           faces |-> faces,
                           pre |-> trk,
                           cands |-> r.cands,
                           box |-> r.box,
                           assigned |-> trkLog.assigned
                                          \cup { trkLog.cands[i].id : i \in 1..Len(trkLog.cands) } ]

TrkNext == TrkGetTarget /\ UNCHANGED <<camVars, pipeVars>>

TrkSpec == TrkInit /\ [][TrkNext]_vars

----------------------------------------------------------------------------
(* Steps of the two pipelines *)

\* The function ends by raising: nothing after the raise runs.
Raised(r) == [r EXCEPT !.pc = "done", !.outcome = "raised", !.raised_at = r.pc]

\* cv2.resize to (w, h) raises on an empty size.
ResizeRaises(w, h) == w <= 0 \/ h <= 0

\* One output frame handed to the sink.
OutFrame(frame, kind, box, w, h) ==
    [frame |-> frame, kind |-> kind, box |-> box, w |-> w, h |-> h]

MutSceneIndexLate(r) ==
    LET sb == r.scene_boundaries
        i == r.current_scene_index
    IN  IF i < Len(sb) /\ r.frame_number > sb[i + 1][2] /\ i < Len(sb) - 1
        THEN i + 1 ELSE i

\* "update scene" of process_single_clip: the scene index used for this frame
SceneIndexFor(r) ==
    LET sb == r.scene_boundaries
        i == r.current_scene_index
    IN  IF i < Len(sb) /\ r.frame_number >= sb[i + 1][2] /\ i < Len(sb) - 1
        THEN i + 1 ELSE i

\* strategy = strategies[current_scene_index] if in range else 'TRACK'
StrategyFor(r, i) ==
    IF i < Len(r.strategies) THEN r.strategies[i + 1] ELSE "TRACK"

\* What one loop iteration leaves behind.
IterResult(r, c, t, snk, log) ==
    [run |-> r, cam |-> c, trk |-> t, sink |-> snk, log |-> log]

\* What the detection block of an iteration leaves behind: the camera and
\* tracker, whether a detector raised, which calls ran, and the box handed to
\* update_target.
DetectResult(c, t, raised, ran_faces, ran_target, ran_person, target_box) ==
    [ cam |-> c, trk |-> t, raised |-> raised, ran_faces |-> ran_faces,
      ran_target |-> ran_target, ran_person |-> ran_person,
      target_box |-> target_box ]

\* The log of an iteration that got as far as d (and g, if get_crop_box ran).
IterLog(log0, d, ran_crop, force_snap, crop_box, raised) ==
    [log0 EXCEPT !.ran_faces = d.ran_faces, !.ran_target = d.ran_target,
                 !.ran_person = d.ran_person, !.target_box = d.target_box,
                 !.ran_crop = ran_crop, !.force_snap = force_snap,
                 !.crop_box = crop_box, !.raised = raised]

MutSinkWriteFront(snk, out) == <<out>> \o snk

\* ffmpeg_process.stdin.write(final_frame.tobytes()) / out.write(output_frame)
SinkWrite(snk, out) == Append(snk, out)

\* process_single_clip: "if y2 > y1 and x2 > x1" crop and resize, else resize
\* the whole frame.
MainCompose(fn, b, w, h) ==
    IF b[4] > b[2] /\ b[3] > b[1] THEN OutFrame(fn, "crop", b, w, h)
    ELSE OutFrame(fn, "full", None, w, h)

\* crop_video_to_vertical: crop = frame[y1:y2, x1:x2]; "if crop.size == 0"
\* resize the whole frame, else resize the crop.
SvcCompose(fn, b, w, h) ==
    IF Max(b[4] - b[2], 0) * Max(b[3] - b[1], 0) = 0
    THEN OutFrame(fn, "full", None, w, h)
    ELSE OutFrame(fn, "crop", b, w, h)

\* process_single_clip after get_target returned gt: update_target with the
\* face box, else the person fallback.
MainAfterTarget(c, person, fault, gt) ==
    IF gt.box # None
    THEN DetectResult(update_target(c, gt.box), gt.trk, FALSE, TRUE, TRUE, FALSE, gt.box)
    ELSE IF fault = "person"
    THEN DetectResult(c, gt.trk, TRUE, TRUE, TRUE, TRUE, None)
    ELSE DetectResult(update_target(c, person), gt.trk, FALSE, TRUE, TRUE, TRUE, person)

MutMainDetectEveryFrame(r, c, t, faces, person, fault) ==
    IF fault = "detect"
    THEN DetectResult(c, t, TRUE, TRUE, FALSE, FALSE, None)
    ELSE MainAfterTarget(c, person, fault,
                         get_target(t, faces, r.frame_number, r.video[1]))

\* The "if frame_number % 2 == 0" block of process_single_clip.
MainDetect(r, c, t, faces, person, fault) ==
    IF r.frame_number % 2 # 0
    THEN DetectResult(c, t, FALSE, FALSE, FALSE, FALSE, None)
    ELSE IF fault = "detect"
    THEN DetectResult(c, t, TRUE, TRUE, FALSE, FALSE, None)
    ELSE MainAfterTarget(c, person, fault,
                         get_target(t, faces, r.frame_number, r.video[1]))

\* The end of a TRACK iteration: resize (raises on an empty output size),
\* the write, frame_number += 1.
MainEmit(r, snk, fault, log0, d, force_snap, g) ==
    IF ResizeRaises(r.out_w, r.out_h) \/ fault = "write"
    THEN IterResult(Raised(r), g.cam, d.trk, snk,
                    IterLog(log0, d, TRUE, force_snap, g.box, TRUE))
    ELSE IterResult([r EXCEPT !.frame_number = @ + 1], g.cam, d.trk,
                    SinkWrite(snk, MainCompose(r.frame_number, g.box, r.out_w, r.out_h)),
                    IterLog(log0, d, TRUE, force_snap, g.box, FALSE))

\* A TRACK iteration after the detection block: get_crop_box with
\* force_snap = is_scene_start.
MainCrop(r, snk, fault, log0, d, is_scene_start) ==
    IF d.raised
    THEN IterResult(Raised(r), d.cam, d.trk, snk,
                    IterLog(log0, d, FALSE, FALSE, None, TRUE))
    ELSE MainEmit(r, snk, fault, log0, d, is_scene_start,
                  get_crop_box(d.cam, is_scene_start))

\* A GENERAL iteration: create_general_frame (raises on an empty output
\* size), the camera reset to the centre of the frame, the write.
MainGeneral(r, c, t, snk, fault, log0) ==
    IF ResizeRaises(r.out_w, r.out_h)
    THEN IterResult(Raised(r), c, t, snk, [log0 EXCEPT !.raised = TRUE])
    ELSE IF fault = "write"
    THEN IterResult(Raised(r),
                    [c EXCEPT !.current_center_x = (Q * r.video[1]) \div 2,
                              !.target_center_x = (Q * r.video[1]) \div 2],
                    t, snk, [log0 EXCEPT !.raised = TRUE])
    ELSE IterResult([r EXCEPT !.frame_number = @ + 1],
                    [c EXCEPT !.current_center_x = (Q * r.video[1]) \div 2,
                              !.target_center_x = (Q * r.video[1]) \div 2],
                    t,
                    SinkWrite(snk, OutFrame(r.frame_number, "general", None,
                                            r.out_w, r.out_h)),
                    log0)

MutMainInSceneAlwaysTrack(r, c, t, snk, faces, person, fault, i, strategy, log0) ==
    MainCrop(r, snk, fault, log0,
             MainDetect(r, c, t, faces, person, fault),
             r.frame_number = r.scene_boundaries[i + 1][1])

MutMainInSceneSnapClipStart(r, c, t, snk, faces, person, fault, i, strategy, log0) ==
    IF strategy = "GENERAL"
    THEN MainGeneral(r, c, t, snk, fault, log0)
    ELSE MainCrop(r, snk, fault, log0,
                  MainDetect(r, c, t, faces, person, fault),
                  r.frame_number = 0)

\* An iteration of process_single_clip in scene i under the given strategy.
MainInScene(r, c, t, snk, faces, person, fault, i, strategy, log0) ==
    IF strategy = "GENERAL"
    THEN MainGeneral(r, c, t, snk, fault, log0)
    ELSE MainCrop(r, snk, fault, log0,
                  MainDetect(r, c, t, faces, person, fault),
                  r.frame_number = r.scene_boundaries[i + 1][1])

\* One iteration of the while loop of process_single_clip once a frame was read.
MainIteration(r, c, t, snk, faces, person, fault) ==
    MainInScene([r EXCEPT !.current_scene_index = SceneIndexFor(r), !.decoded = @ + 1],
                c, t, snk, faces, person, fault,
                SceneIndexFor(r), StrategyFor(r, SceneIndexFor(r)),
                [FrameLogInit EXCEPT !.frame = r.frame_number,
                                     !.scene_index = SceneIndexFor(r),
                                     !.strategy = StrategyFor(r, SceneIndexFor(r)),
                                     !.pre_scene_index = r.current_scene_index,
                                     !.pre_cam = c, !.pre_trk = t])

\* Whether the chosen fault point is passed by this iteration of
\* process_single_clip (a fault is only chosen where the call is made).
MainFaultApplies(r, t, faces, fault) ==
    CASE fault = "none" -> TRUE
      [] fault = "detect" ->
             StrategyFor(r, SceneIndexFor(r)) # "GENERAL" /\ r.frame_number % 2 = 0
      [] fault = "person" ->
             /\ StrategyFor(r, SceneIndexFor(r)) # "GENERAL" /\ r.frame_number % 2 = 0
             /\ get_target(t, faces, r.frame_number, r.video[1]).box = None
      [] fault = "write" -> ~ResizeRaises(r.out_w, r.out_h)
      [] OTHER -> FALSE

\* crop_video_to_vertical after the face step: "if not target_box" the person
\* fallback; then update_target(target_box), None included.
SvcAfterTarget(c, person, fault, ran_target, gt) ==
    IF gt.box # None
    THEN DetectResult(update_target(c, gt.box), gt.trk, FALSE, TRUE, ran_target, FALSE, gt.box)
    ELSE IF fault = "person"
    THEN DetectResult(c, gt.trk, TRUE, TRUE, ran_target, TRUE, None)
    ELSE DetectResult(update_target(c, person), gt.trk, FALSE, TRUE, ran_target, TRUE, person)

\* The detection block of crop_video_to_vertical: get_target is only called
\* with a non-empty candidate list.
SvcDetect(r, c, t, faces, person, fault) ==
    IF fault = "detect"
    THEN DetectResult(c, t, TRUE, TRUE, FALSE, FALSE, None)
    ELSE IF Len(faces) = 0
    THEN SvcAfterTarget(c, person, fault, FALSE, [trk |-> t, box |-> None])
    ELSE SvcAfterTarget(c, person, fault, TRUE,
                        get_target(t, faces, r.frame_number, r.video[1]))

\* except: re-raise; finally: cap.release(), out.release().
SvcRaised(r) == [Raised(r) EXCEPT !.capOpen = FALSE, !.encOpen = FALSE]

\* The end of an iteration of crop_video_to_vertical: crop, resize, write,
\* current_frame_idx += 1.
SvcEmit(r, snk, fault, log0, d, g) ==
    IF fault = "write"
    THEN IterResult(SvcRaised(r), g.cam, d.trk, snk,
                    IterLog(log0, d, TRUE, FALSE, g.box, TRUE))
    ELSE IterResult([r EXCEPT !.frame_number = @ + 1], g.cam, d.trk,
                    SinkWrite(snk, SvcCompose(r.frame_number, g.box, r.out_w, r.out_h)),
                    IterLog(log0, d, TRUE, FALSE, g.box, FALSE))

\* An iteration of crop_video_to_vertical after the detection block:
\* get_crop_box() without force_snap.
SvcCrop(r, snk, fault, log0, d) ==
    IF d.raised
    THEN IterResult(SvcRaised(r), d.cam, d.trk, snk,
                    IterLog(log0, d, FALSE, FALSE, None, TRUE))
    ELSE SvcEmit(r, snk, fault, log0, d, get_crop_box(d.cam, FALSE))

\* One iteration of the while loop of crop_video_to_vertical once a frame was
\* read, with the except/finally that follows a raise.
SvcIteration(r, c, t, snk, faces, person, fault) ==
    SvcCrop([r EXCEPT !.decoded = @ + 1], snk, fault,
            [FrameLogInit EXCEPT !.frame = r.frame_number, !.strategy = "TRACK",
                                 !.pre_cam = c, !.pre_trk = t],
            SvcDetect(r, c, t, faces, person, fault))

\* Whether the chosen fault point is passed by this iteration of
\* crop_video_to_vertical.
SvcFaultApplies(r, t, faces, fault) ==
    CASE fault = "none" -> TRUE
      [] fault = "detect" -> TRUE
      [] fault = "person" ->
             IF Len(faces) = 0 THEN TRUE
             ELSE get_target(t, faces, r.frame_number, r.video[1]).box = None
      [] fault = "write" -> TRUE
      [] OTHER -> FALSE

Init ==
    /\ \E impl \in {"main", "service"}, video \in PipeVideos, nframes \in 0..MaxFrames :
          run = RunInit(impl, video, nframes)
    /\ sink = << >>
    /\ cam = SmoothedCameraman(run.video[1], run.video[2])
    /\ camLog = CamLogInit(cam)
    /\ trk = SpeakerTracker
    /\ trkLog = TrkLogInit
    /\ frameLog = FrameLogInit
    /\ scn = ScnStart("none", << >>)

\* process_single_clip: cut the segment; a missing cut file ends the run
\* with return False.
MainCut ==
    /\ run.impl = "main" /\ run.pc = "start"
    /\ \E cut_exists \in BOOLEAN :
          run' = IF cut_exists THEN [run EXCEPT !.pc = "detect"]
                 ELSE [run EXCEPT !.pc = "done", !.outcome = "returned_false"]
    /\ UNCHANGED <<cam, camLog, trk, trkLog, sink, frameLog, scn>>

\* detect_scenes of core/scenes.py (no exception handler), then the
\* "if not scenes" block, whose first statement, subprocess.VideoCapture,
\* raises AttributeError.
MainDetectScenes ==
    /\ run.impl = "main" /\ run.pc = "detect"
    /\ \/ run' = [Raised(run) EXCEPT !.seg = "failed"]
       \/ \E scenes \in ScenePlans(run.nframes) :
             run' = IF Len(scenes) = 0 THEN [Raised(run) EXCEPT !.seg = "empty"]
                    ELSE [run EXCEPT !.pc = "analyze", !.seg = "found",
                                     !.scene_boundaries = scenes]
    /\ UNCHANGED <<cam, camLog, trk, trkLog, sink, frameLog, scn>>

\* analyze_scenes_strategy of core/scenes.py: one label per scene, or the
\* exception of a detector call, which nothing catches.
MainAnalyze ==
    /\ run.impl = "main" /\ run.pc = "analyze"
    /\ \/ run' = Raised(run)
       \/ \E st \in StrategyLists(Len(run.scene_boundaries)) :
             run' = [run EXCEPT !.pc = "open", !.strategies = st]
    /\ UNCHANGED <<cam, camLog, trk, trkLog, sink, frameLog, scn>>

\* get_video_resolution (raises IOError when the clip does not open), the
\* output size, the cameraman and tracker, the ffmpeg pipe, the capture.
MainOpen ==
    /\ run.impl = "main" /\ run.pc = "open"
    /\ \E res_ok \in BOOLEAN, cap_ok \in BOOLEAN :
          IF ~res_ok
          THEN /\ run' = [Raised(run) EXCEPT !.open_failed = TRUE]
               /\ UNCHANGED <<cam, trk>>
          ELSE LET h == run.video[2]
                   w0 == IntTrunc(h * 9, 16)
                   w == IF w0 % 2 # 0 THEN w0 + 1 ELSE w0
               IN  /\ run' = [run EXCEPT !.pc = "loop", !.out_w = w, !.out_h = h,
                                         !.frame_number = 0,
                                         !.current_scene_index = 0,
                                         !.encOpen = TRUE, !.capOpen = cap_ok,
                                         !.open_failed = ~cap_ok]
                   /\ cam' = SmoothedCameraman(run.video[1], run.video[2])
                   /\ trk' = SpeakerTracker
    /\ UNCHANGED <<camLog, trkLog, sink, frameLog, scn>>

\* One pass of "while cap.isOpened()" with a frame read.
MainFrame ==
    /\ run.impl = "main" /\ run.pc = "loop"
    /\ run.capOpen /\ run.decoded < run.nframes
    /\ \E faces \in PipeFaceLists, person \in PersonBoxes, fault \in FaultPoints :
          /\ MainFaultApplies(run, trk, faces, fault)
          /\ \E n \in {MainIteration(run, cam, trk, sink, faces, person, fault)} :
                 /\ run' = [n.run EXCEPT !.enc_failed = @ \/ fault = "write"]
                 /\ cam' = n.cam
                 /\ trk' = n.trk
                 /\ sink' = n.sink
                 /\ frameLog' = [n.log EXCEPT
                                    !.fault = fault,
                                    !.faces = IF n.log.ran_target THEN faces ELSE << >>,
                                    !.quiet = /\ frameLog.quiet
                                              /\ Len(faces) = 0 /\ person = None
                                              /\ fault \notin {"detect", "person"}]
    /\ UNCHANGED <<camLog, trkLog, scn>>

\* The loop ends: the capture is not open, or read() returned no frame.
MainLoopExit ==
    /\ run.impl = "main" /\ run.pc = "loop"
    /\ ~run.capOpen \/ run.decoded >= run.nframes
    /\ run' = [run EXCEPT !.pc = "drain"]
    /\ UNCHANGED <<cam, camLog, trk, trkLog, sink, frameLog, scn>>

\* stdin.close(); wait(); cap.release().  The exit status of ffmpeg is not
\* looked at.
MainDrain ==
    /\ run.impl = "main" /\ run.pc = "drain"
    /\ \E rc \in {0, 1} :
          run' = [run EXCEPT !.pc = "merge", !.enc_rc = rc,
                             !.enc_failed = @ \/ rc # 0,
                             !.encOpen = FALSE, !.capOpen = FALSE]
    /\ UNCHANGED <<cam, camLog, trk, trkLog, sink, frameLog, scn>>

\* Audio extraction, merge, cleanup, return True.
MainMerge ==
    /\ run.impl = "main" /\ run.pc = "merge"
    /\ run' = [run EXCEPT !.pc = "done", !.outcome = "returned_true"]
    /\ UNCHANGED <<cam, camLog, trk, trkLog, sink, frameLog, scn>>

\* crop_video_to_vertical up to the loop: open the source (IOError when it
\* does not open), the frame range, the trackers, the writer (whether
\* cv2.VideoWriter opened is not looked at), the seek.
SvcOpen ==
    /\ run.impl = "service" /\ run.pc = "start"
    /\ \E opened \in BOOLEAN, writer_ok \in BOOLEAN, start_frame \in {0, 1},
          end_frame \in {run.nframes, Max(run.nframes - 1, 0)} :
          IF ~opened
          THEN /\ run' = [Raised(run) EXCEPT !.open_failed = TRUE]
               /\ UNCHANGED <<cam, trk>>
          ELSE /\ run' = [run EXCEPT !.pc = "loop",
                                     !.out_w = SvcTargetWidth, !.out_h = SvcTargetHeight,
                                     !.frame_number = start_frame,
                                     !.start_frame = start_frame,
                                     !.end_frame = end_frame,
                                     !.scene_boundaries = << <<0, run.nframes>> >>,
                                     !.strategies = << "TRACK" >>,
                                     !.enc_failed = ~writer_ok,
                                     !.capOpen = TRUE, !.encOpen = TRUE]
               /\ cam' = SmoothedCameraman(run.video[1], run.video[2])
               /\ trk' = SpeakerTracker
    /\ UNCHANGED <<camLog, trkLog, sink, frameLog, scn>>

\* One pass of "while current_frame_idx < end_frame" with a frame read.
SvcFrame ==
    /\ run.impl = "service" /\ run.pc = "loop"
    /\ run.frame_number < run.end_frame /\ run.frame_number < run.nframes
    /\ \E faces \in PipeFaceLists, person \in PersonBoxes, fault \in FaultPoints :
          /\ SvcFaultApplies(run, trk, faces, fault)
          /\ \E n \in {SvcIteration(run, cam, trk, sink, faces, person, fault)} :
                 /\ run' = [n.run EXCEPT !.enc_failed = @ \/ fault = "write"]
                 /\ cam' = n.cam
                 /\ trk' = n.trk
                 /\ sink' = n.sink
                 /\ frameLog' = [n.log EXCEPT
                                    !.fault = fault,
                                    !.faces = IF n.log.ran_target THEN faces ELSE << >>,
                                    !.quiet = /\ frameLog.quiet
                                              /\ Len(faces) = 0 /\ person = None
                                              /\ fault \notin {"detect", "person"}]
    /\ UNCHANGED <<camLog, trkLog, scn>>

\* The loop ends (range exhausted or read() returned no frame): the finally
\* block releases both handles and the function returns True.
SvcFinish ==
    /\ run.impl = "service" /\ run.pc = "loop"
    /\ run.frame_number >= run.end_frame \/ run.frame_number >= run.nframes
    /\ run' = [run EXCEPT !.pc = "done", !.outcome = "returned_true",
                          !.capOpen = FALSE, !.encOpen = FALSE]
    /\ UNCHANGED <<cam, camLog, trk, trkLog, sink, frameLog, scn>>

Next ==
    \/ MainCut \/ MainDetectScenes \/ MainAnalyze \/ MainOpen
    \/ MainFrame \/ MainLoopExit \/ MainDrain \/ MainMerge
    \/ SvcOpen \/ SvcFrame \/ SvcFinish

Spec == Init /\ [][Next]_vars


----------------------------------------------------------------------------
(* Steps of analyze_scenes_strategy *)

ScnInit ==
    /\ \E impl \in {"features", "core"}, n \in 0..MaxScenes :
          scn = ScnStart(impl, SceneList(n))
    /\ cam = SmoothedCameraman(TrackVideo[1], TrackVideo[2])
    /\ camLog = CamLogInit(cam)
    /\ trk = SpeakerTracker
    /\ trkLog = TrkLogInit
    /\ run = RunInit("none", TrackVideo, 0)
    /\ sink = << >>
    /\ frameLog = FrameLogInit

\* cap = cv2.VideoCapture(video_path); a capture that did not open returns
\* ['TRACK'] * len(scenes) at once.
ScnOpen ==
    /\ scn.pc = "start" /\ scn.impl # "none"
    /\ \E opened \in BOOLEAN :
          scn' = IF opened
                 THEN [scn EXCEPT !.pc = "loop", !.opened = TRUE, !.capOpen = TRUE]
                 ELSE [scn EXCEPT !.pc = "done", !.outcome = "returned",
                                  !.strategies = Tracks(Len(scn.scenes))]
    /\ UNCHANGED <<cam, camLog, trk, trkLog, run, sink, frameLog>>

\* One pass of the loop over scenes.  When face_detection_fn raises, the
\* features version fills the remaining labels with TRACK, releases the
\* capture and returns; the core version lets the exception out.
ScnScene ==
    /\ scn.pc = "loop" /\ Len(scn.strategies) < Len(scn.scenes)
    /\ \E obs \in SceneObs :
          scn' = IF SceneRaises(obs)
                 THEN IF scn.impl = "features"
                      THEN [scn EXCEPT !.pc = "done", !.outcome = "returned",
                                       !.capOpen = FALSE,
                                       !.last_obs = obs,
                                       !.face_counts = << >>,
                                       !.raised_at = Len(scn.strategies) + 1,
                                       !.kept = scn.strategies,
                                       !.strategies =
                                           @ \o Tracks(Len(scn.scenes) - Len(@))]
                      ELSE [scn EXCEPT !.pc = "done", !.outcome = "raised",
                                       !.last_obs = obs,
                                       !.face_counts = << >>,
                                       !.kept = scn.strategies,
                                       !.raised_at = Len(scn.strategies) + 1]
                 ELSE [scn EXCEPT !.last_obs = obs,
                                  !.face_counts = FaceCounts(obs, 1),
                                  !.strategies = Append(@, Classify(FaceCounts(obs, 1)))]
    /\ UNCHANGED <<cam, camLog, trk, trkLog, run, sink, frameLog>>

\* The loop is over: cap.release(); return strategies.
ScnReturn ==
    /\ scn.pc = "loop" /\ Len(scn.strategies) = Len(scn.scenes)
    /\ scn' = [scn EXCEPT !.pc = "done", !.outcome = "returned", !.capOpen = FALSE]
    /\ UNCHANGED <<cam, camLog, trk, trkLog, run, sink, frameLog>>

ScnNext == ScnOpen \/ ScnScene \/ ScnReturn

ScnSpec == ScnInit /\ [][ScnNext]_vars

----------------------------------------------------------------------------
(* Claims about SmoothedCameraman, checked under CamSpec *)

AfterGetCropBox == camLog.op = "get_crop_box"

AfterPan == camLog.op = "get_crop_box" /\ ~camLog.force_snap

\* target - current before the last call
PreDiff == camLog.pre.target_center_x - camLog.pre.current_center_x

\* C1: after every get_crop_box call (snap or not) the crop rectangle lies in
\* the frame: current_center_x - crop_width/2 >= 0,
\* current_center_x + crop_width/2 <= video_width, and the returned box has
\* 0 <= x1 <= x2 <= video_width.
C1_ClampInvariant ==
    AfterGetCropBox =>
        /\ cam.crop_width <= cam.video_width
        /\ cam.current_center_x - HalfCrop(cam) >= 0
        /\ cam.current_center_x + HalfCrop(cam) <= Q * cam.video_width
        /\ 0 <= camLog.box[1]
        /\ camLog.box[1] <= camLog.box[3]
        /\ camLog.box[3] <= cam.video_width

\* C1 witness: a snap to a target right of the frame was clamped to the right edge.
C1_Witness ==
    /\ AfterGetCropBox
    /\ camLog.force_snap
    /\ camLog.pre.target_center_x + HalfCrop(cam) > Q * cam.video_width
    /\ cam.current_center_x = Q * cam.video_width - HalfCrop(cam)
    /\ cam.crop_width < cam.video_width

\* C2 as stated: once the target stops changing, ceil(|diff| / speed) calls of
\* get_crop_box(force_snap=False) make current_center_x equal to the target
\* (diff taken at the last update_target, speed the one get_crop_box picks
\* for that diff).
C2_Original ==
    ( /\ camLog.calls >= 0
      /\ camLog.calls >= CeilDiv(Abs(camLog.diff0), Q * PanSpeed(cam, camLog.diff0)) )
    => cam.current_center_x = cam.target_center_x

\* The camera has come to rest: within the dead zone of the target, or held
\* at the frame-edge clamp position on the target's side.
CamSettled ==
    \/ Abs(cam.target_center_x - cam.current_center_x) <= cam.safe_zone_radius
    \/ /\ cam.current_center_x = HalfCrop(cam)
       /\ cam.target_center_x < cam.current_center_x
    \/ /\ cam.current_center_x = Q * cam.video_width - HalfCrop(cam)
       /\ cam.target_center_x > cam.current_center_x

\* C2 (amended): once the target stops changing, within ceil(|diff| / 3.0)
\* get_crop_box(force_snap=False) calls current_center_x comes to rest within
\* safe_zone_radius of the target or at the frame-edge clamp position on the
\* target's side, and later calls leave it there.
C2_Convergence ==
    ( /\ camLog.calls >= 0
      /\ camLog.calls >= CeilDiv(Abs(camLog.diff0), Q * SlowSpeed) )
    => /\ CamSettled
       /\ (AfterPan /\ camLog.calls > CeilDiv(Abs(camLog.diff0), Q * SlowSpeed))
              => cam.current_center_x = camLog.pre.current_center_x

\* C2 witness: a pan that began outside the dead zone has moved the camera,
\* has used exactly its budget of calls and rests short of the target.
C2_Witness ==
    /\ AfterPan
    /\ Abs(camLog.diff0) > cam.safe_zone_radius
    /\ camLog.calls = CeilDiv(Abs(camLog.diff0), Q * SlowSpeed)
    /\ CamSettled
    /\ cam.current_center_x # cam.target_center_x
    /\ cam.target_center_x - cam.current_center_x # camLog.diff0

\* C6: if |target - current| <= safe_zone_radius before the call,
\* get_crop_box(force_snap=False) leaves current_center_x unchanged.
C6_DeadZone ==
    (AfterPan /\ Abs(PreDiff) <= cam.safe_zone_radius)
    => cam.current_center_x = camLog.pre.current_center_x

\* C6 witness: a non-snap call made with the target off-centre by exactly
\* the safe-zone radius.
C6_Witness ==
    /\ AfterPan
    /\ Abs(PreDiff) = cam.safe_zone_radius
    /\ cam.safe_zone_radius > 0
    /\ cam.current_center_x = camLog.pre.current_center_x

\* |change of current_center_x| made by the last call
CenterChange == Abs(cam.current_center_x - camLog.pre.current_center_x)

\* C7 as stated: outside the dead zone the change of current_center_x made by
\* get_crop_box(force_snap=False) has magnitude 15.0 if |diff| > 0.5 * crop_width
\* and 3.0 otherwise.
C7_Original ==
    (AfterPan /\ Abs(PreDiff) > cam.safe_zone_radius)
    => CenterChange = Q * (IF 2 * Abs(PreDiff) > Q * cam.crop_width THEN 15 ELSE 3)

\* C7 (amended): outside the dead zone the change has magnitude 15.0 if
\* |diff| > 0.5 * crop_width and 3.0 otherwise, except that it is smaller when
\* the step would pass the target (current_center_x then ends on the target)
\* or the frame clamp pulls the centre back (it then ends at half_crop or
\* video_width - half_crop); the change is never larger and never away from
\* the target.
C7_TwoSpeedPan ==
    (AfterPan /\ Abs(PreDiff) > cam.safe_zone_radius)
    => LET speed == Q * (IF 2 * Abs(PreDiff) > Q * cam.crop_width THEN 15 ELSE 3)
           delta == cam.current_center_x - camLog.pre.current_center_x
       IN  /\ delta * PreDiff >= 0
           /\ \/ Abs(delta) = speed
              \/ /\ Abs(delta) < speed
                 /\ \/ cam.current_center_x = cam.target_center_x
                    \/ cam.current_center_x = HalfCrop(cam)
                    \/ cam.current_center_x = Q * cam.video_width - HalfCrop(cam)

\* C7 witness: a fast step of exactly 15 pixels and no more.
C7_Witness ==
    /\ AfterPan
    /\ 2 * Abs(PreDiff) > Q * cam.crop_width
    /\ CenterChange = Q * 15
    /\ cam.current_center_x # cam.target_center_x

\* C7 second case reached as well: a slow step of exactly 3 pixels.
C7_WitnessSlow ==
    /\ AfterPan
    /\ Abs(PreDiff) > cam.safe_zone_radius
    /\ 2 * Abs(PreDiff) <= Q * cam.crop_width
    /\ CenterChange = Q * 3

\* C8: get_crop_box(force_snap=True) followed immediately by
\* get_crop_box(force_snap=False) returns the identical box.
C8_SnapRoundTrip ==
    (AfterPan /\ camLog.prevOp = "get_crop_box" /\ camLog.prevSnap)
    => camLog.box = camLog.prevBox

\* C8 witness: the round trip at a target beyond the left frame edge, where
\* the snapped centre was clamped and the pan branch of the second call acts.
C8_Witness ==
    /\ AfterPan
    /\ camLog.prevOp = "get_crop_box"
    /\ camLog.prevSnap
    /\ cam.target_center_x - HalfCrop(cam) < 0
    /\ Abs(PreDiff) > cam.safe_zone_radius
    /\ cam.crop_width < cam.video_width
    /\ camLog.box = camLog.prevBox

\* C19 as stated: after get_crop_box(force_snap=True) current_center_x equals
\* target_center_x.
C19_Original ==
    (AfterGetCropBox /\ camLog.force_snap) =>
        cam.current_center_x = cam.target_center_x

\* C19 (amended): after get_crop_box(force_snap=True) current_center_x is the
\* target brought into [half_crop, video_width - half_crop]: the target
\* itself when the crop window centred on it fits in the frame, else the
\* nearest position at which it fits; target_center_x is not changed.
C19_ForceSnap ==
    (AfterGetCropBox /\ camLog.force_snap) =>
        LET target == camLog.pre.target_center_x
            lo == HalfCrop(cam)
            hi == Q * cam.video_width - HalfCrop(cam)
        IN  /\ cam.target_center_x = target
            /\ (lo <= target /\ target <= hi) => cam.current_center_x = target
            /\ target < lo => cam.current_center_x = lo
            /\ target > hi => cam.current_center_x = hi

\* A snap to the target of a face box at the left edge of the frame (x = 0),
\* made from a camera that stood elsewhere: the centre stops at half_crop,
\* short of the target.
C19_Witness ==
    /\ AfterGetCropBox /\ camLog.force_snap
    /\ cam.target_center_x >= 0
    /\ cam.target_center_x < HalfCrop(cam)
    /\ cam.current_center_x = HalfCrop(cam)
    /\ camLog.pre.current_center_x > HalfCrop(cam)

\* target - current after the last call
PostDiff == cam.target_center_x - cam.current_center_x

\* C28: a get_crop_box(force_snap=False) call never moves current_center_x
\* past target_center_x: target - current keeps its sign or becomes zero,
\* after the pan step and after the frame clamp that follows it.
C28_NoOvershoot ==
    AfterPan =>
        LET stepDiff == camLog.pre.target_center_x - PanStep(camLog.pre)
        IN  /\ PreDiff > 0 => (stepDiff >= 0 /\ PostDiff >= 0)
            /\ PreDiff < 0 => (stepDiff <= 0 /\ PostDiff <= 0)
            /\ PreDiff = 0 => (stepDiff = 0 /\ PostDiff = 0)

\* A fast step of 15 pixels would have carried the camera past a target
\* nearer than that; the call stopped it on the target.
C28_Witness ==
    /\ AfterPan
    /\ Abs(PreDiff) > HalfCrop(cam)
    /\ Abs(PreDiff) < Q * FastSpeed
    /\ cam.current_center_x = cam.target_center_x
    /\ cam.current_center_x # camLog.pre.current_center_x

----------------------------------------------------------------------------
(* Claims about SpeakerTracker, checked under TrkSpec *)

AfterGetTarget == trkLog.calls > 0

\* The ids of the current frame's candidates
CandIds == { trkLog.cands[i].id : i \in 1..Len(trkLog.cands) }

\* The active speaker before the last call is among its candidates
IncumbentPresent == trkLog.pre.active_speaker_id \in CandIds

\* The last call was made fewer than switch_cooldown frames after the last switch
InCooldown ==
    trkLog.frame_number - trkLog.pre.last_switch_frame < trkLog.pre.switch_cooldown

\* C3: a get_target call made within switch_cooldown frames of the last
\* switch, with the active speaker among the frame's matched candidates,
\* leaves active_speaker_id unchanged and returns the active speaker's box.
C3_SwitchCooldown ==
    (AfterGetTarget /\ InCooldown /\ IncumbentPresent)
    => /\ trk.active_speaker_id = trkLog.pre.active_speaker_id
       /\ \E i \in 1..Len(trkLog.cands) :
              /\ trkLog.cands[i].id = trk.active_speaker_id
              /\ trkLog.box = trkLog.cands[i].box

\* C3 witness: the switch was rejected although another candidate's score
\* beats three times the incumbent's.
C3_Witness ==
    /\ AfterGetTarget /\ InCooldown /\ IncumbentPresent
    /\ trk.active_speaker_id = trkLog.pre.active_speaker_id
    /\ \E j \in 1..Len(trkLog.cands) :
           /\ trkLog.cands[j].id # trk.active_speaker_id
           /\ trk.speaker_scores[trkLog.cands[j].id]
                  > 3 * trk.speaker_scores[trk.active_speaker_id]
           /\ trkLog.box # trkLog.cands[j].box

\* Face i of the last call lies farther than 0.15 * width from the centre of
\* every identity known when it is matched and seen at most 30 frames ago:
\* the records the call started with, unless an earlier face of the call
\* replaced them, and the records of the call's earlier faces.
FarFromKnown(i) ==
    LET c == FaceCenter(trkLog.faces[i].box)
        far(x) == 100 * Abs(c - x) > Q * TrackVideo[1] * 15
        earlier == { trkLog.cands[j].id : j \in 1..(i - 1) }
        kfs == trkLog.pre.known_faces
    IN  /\ \A k \in 1..Len(kfs) :
              ( /\ trkLog.frame_number - kfs[k].last_frame <= 30
                /\ kfs[k].id \notin earlier )
              => far(kfs[k].center)
        /\ \A j \in 1..(i - 1) :
              (\A l \in (j + 1)..(i - 1) : trkLog.cands[l].id # trkLog.cands[j].id)
              => far(FaceCenter(trkLog.faces[j].box))

\* C9: a face farther than 0.15 * width from every known identity seen within
\* the previous 30 frames gets an id no identity was given before: not by an
\* earlier call, not by an earlier face of this call; ids come from the
\* strictly increasing counter next_id.
C9_FreshIdentity ==
    AfterGetTarget =>
        /\ trk.next_id >= trkLog.pre.next_id
        /\ \A id \in trkLog.assigned \cup CandIds : id < trk.next_id
        /\ \A i \in 1..Len(trkLog.faces) :
              FarFromKnown(i) =>
                  /\ trkLog.cands[i].id \notin trkLog.assigned
                  /\ \A j \in 1..(i - 1) : trkLog.cands[j].id # trkLog.cands[i].id
                  /\ trkLog.cands[i].id >= trkLog.pre.next_id

\* C9 witness: a far face got a fresh id while an identity seen within the
\* window and other, older ids existed.
C9_Witness ==
    /\ AfterGetTarget
    /\ \E i \in 1..Len(trkLog.faces) :
          /\ FarFromKnown(i)
          /\ trkLog.cands[i].id >= 2
          /\ trkLog.cands[i].id \notin trkLog.assigned
    /\ \E k \in 1..Len(trkLog.pre.known_faces) :
          trkLog.frame_number - trkLog.pre.known_faces[k].last_frame <= 30

\* C10: when the active speaker is not among the frame's candidates, the
\* highest-scoring candidate becomes the active speaker in that call and its
\* box is returned, within the cooldown or not.
C10_SwitchWhenAbsent ==
    (AfterGetTarget /\ Len(trkLog.cands) > 0 /\ ~IncumbentPresent)
    => \E i \in 1..Len(trkLog.cands) :
          /\ trk.active_speaker_id = trkLog.cands[i].id
          /\ trkLog.box = trkLog.cands[i].box
          /\ trk.last_switch_frame = trkLog.frame_number
          /\ \A j \in 1..Len(trkLog.cands) :
                trk.speaker_scores[trkLog.cands[j].id]
                    <= trk.speaker_scores[trkLog.cands[i].id]

\* C10 witness: an active speaker existed, the call came within the cooldown,
\* the speaker was absent and another identity took over at once.
C10_Witness ==
    /\ AfterGetTarget /\ InCooldown /\ ~IncumbentPresent
    /\ trkLog.pre.active_speaker_id # NoId
    /\ Len(trkLog.cands) > 0
    /\ trk.active_speaker_id \in CandIds
    /\ trkLog.box # None

\* The ranks in known_faces, as the last call found it, of the identities last
\* seen gap frames ago or earlier.
StaleBy(gap) ==
    { k \in 1..Len(trkLog.pre.known_faces) :
          trkLog.frame_number - trkLog.pre.known_faces[k].last_frame >= gap }

\* The records of known_faces after the last call
KnownNow == { trk.known_faces[k] : k \in 1..Len(trk.known_faces) }

\* C20 as stated: an identity without detection for 30 frames or more
\* (frame_number - last_frame >= 30) is not the match of any face of the call,
\* and its record stays in known_faces.
C20_Original ==
    AfterGetTarget =>
        \A k \in StaleBy(30) :
            /\ trkLog.pre.known_faces[k].id \notin CandIds
            /\ trkLog.pre.known_faces[k] \in KnownNow

\* C20 (amended): an identity without detection for more than 30 frames
\* (frame_number - last_frame > 30) is not the match of any face of the call,
\* and its record stays in known_faces as it was, so that with growing frame
\* numbers it is not matched by any later call either; at exactly 30 frames
\* it can still be matched.
C20_MatchWindow ==
    AfterGetTarget =>
        \A k \in StaleBy(31) :
            /\ trkLog.pre.known_faces[k].id \notin CandIds
            /\ trkLog.pre.known_faces[k] \in KnownNow

\* A face of the call lies nearer than 0.15 * width to an identity last seen
\* more than 30 frames ago and gets a new id; the old record is still there.
C20_Witness ==
    /\ AfterGetTarget
    /\ \E k \in StaleBy(31), i \in 1..Len(trkLog.faces) :
          /\ 100 * Abs(FaceCenter(trkLog.faces[i].box) - trkLog.pre.known_faces[k].center)
                 < Q * TrackVideo[1] * 15
          /\ trkLog.cands[i].id >= trkLog.pre.next_id
          /\ trkLog.pre.known_faces[k] \in KnownNow

\* The active speaker before the last call is among its candidates, and
\* three times its accumulated score beats every other candidate's score.
IncumbentAhead ==
    /\ IncumbentPresent
    /\ \A j \in 1..Len(trkLog.cands) :
          trkLog.cands[j].id # trkLog.pre.active_speaker_id
          => 3 * ScoreGet(trk.speaker_scores, trkLog.pre.active_speaker_id)
                 > ScoreGet(trk.speaker_scores, trkLog.cands[j].id)

\* C25: when the active speaker is among the candidates and 3.0 times its
\* accumulated score is strictly greater than the score of every other
\* candidate, get_target returns the box of the active speaker's (first)
\* candidate, leaves active_speaker_id and last_switch_frame unchanged and
\* increments locked_counter by one, inside the cooldown or not.
C25_IncumbencyBonus ==
    (AfterGetTarget /\ IncumbentAhead)
    => /\ trkLog.box
            = trkLog.cands[FirstWithId(trkLog.cands, 1, trkLog.pre.active_speaker_id)].box
       /\ trk.active_speaker_id = trkLog.pre.active_speaker_id
       /\ trk.last_switch_frame = trkLog.pre.last_switch_frame
       /\ trk.locked_counter = trkLog.pre.locked_counter + 1

\* The incumbent kept the camera outside the cooldown against a candidate
\* whose accumulated score is higher than its own, but not three times higher.
C25_Witness ==
    /\ AfterGetTarget /\ IncumbentAhead /\ ~InCooldown
    /\ trk.locked_counter = trkLog.pre.locked_counter + 1
    /\ \E j \in 1..Len(trkLog.cands) :
          /\ trkLog.cands[j].id # trk.active_speaker_id
          /\ trk.speaker_scores[trkLog.cands[j].id]
                 > trk.speaker_scores[trk.active_speaker_id]
          /\ trkLog.box # trkLog.cands[j].box

\* C27: get_target returns None exactly when the frame's face list is empty;
\* such a call leaves active_speaker_id, last_switch_frame, locked_counter,
\* known_faces and next_id as they were and only decays the scores.
C27_NoCandidates ==
    AfterGetTarget =>
        /\ trkLog.box = None <=> Len(trkLog.faces) = 0
        /\ Len(trkLog.faces) = 0 =>
              /\ trk.active_speaker_id = trkLog.pre.active_speaker_id
              /\ trk.last_switch_frame = trkLog.pre.last_switch_frame
              /\ trk.locked_counter = trkLog.pre.locked_counter
              /\ trk.known_faces = trkLog.pre.known_faces
              /\ trk.next_id = trkLog.pre.next_id
              /\ DOMAIN trk.speaker_scores \subseteq DOMAIN trkLog.pre.speaker_scores
              /\ \A pid \in DOMAIN trkLog.pre.speaker_scores :
                    LET d == (trkLog.pre.speaker_scores[pid] * 17) \div 20
                    IN  IF 10 * d < ScoreOne
                        THEN pid \notin DOMAIN trk.speaker_scores
                        ELSE /\ pid \in DOMAIN trk.speaker_scores
                             /\ trk.speaker_scores[pid] = d

\* A call without faces returned None while a speaker was active and locked;
\* the speaker is still active although its score left the map.
C27_Witness ==
    /\ AfterGetTarget /\ Len(trkLog.faces) = 0 /\ trkLog.box = None
    /\ trk.active_speaker_id # NoId
    /\ trk.locked_counter > 0
    /\ trkLog.pre.active_speaker_id \in DOMAIN trkLog.pre.speaker_scores
    /\ trk.active_speaker_id \notin DOMAIN trk.speaker_scores

\* C29: whenever get_target returns a box, it is the box of one of the
\* frame's candidates, and that candidate's identity is active_speaker_id as
\* it stands after the call.
C29_BoxOfActiveSpeaker ==
    (AfterGetTarget /\ trkLog.box # None)
    => \E i \in 1..Len(trkLog.cands) :
          /\ trkLog.cands[i].box = trkLog.box
          /\ trkLog.cands[i].box = trkLog.faces[i].box
          /\ trkLog.cands[i].id = trk.active_speaker_id

\* Outside the cooldown the camera went from an incumbent who is still in the
\* frame to another candidate: the box returned is the new speaker's.
C29_Witness ==
    /\ AfterGetTarget /\ trkLog.box # None
    /\ IncumbentPresent /\ ~InCooldown
    /\ trk.active_speaker_id # trkLog.pre.active_speaker_id
    /\ \E i \in 1..Len(trkLog.cands) :
          /\ trkLog.cands[i].id = trkLog.pre.active_speaker_id
          /\ trkLog.cands[i].box # trkLog.box

\* The last call changed the active speaker
SpeakerChanged == trk.active_speaker_id # trkLog.pre.active_speaker_id

\* The last call rejected a switch because of the cooldown: its best
\* candidate was not the active speaker, the cooldown was running and the
\* active speaker was among the candidates.
SwitchRejected ==
    /\ Len(trkLog.cands) > 0
    /\ InCooldown /\ IncumbentPresent
    /\ trkLog.cands[BestCandidate(trkLog.cands, trk.speaker_scores,
                                  trkLog.pre.active_speaker_id)].id
           # trkLog.pre.active_speaker_id

\* C30: a get_target call modifies last_switch_frame exactly when it changes
\* active_speaker_id, and then sets it to the call's frame_number and resets
\* locked_counter to 0; a call that rejects a switch because of the cooldown
\* leaves the three fields unchanged; known_faces never holds two records
\* with the same id.
C30_SwitchBookkeeping ==
    AfterGetTarget =>
        /\ trk.last_switch_frame # trkLog.pre.last_switch_frame <=> SpeakerChanged
        /\ SpeakerChanged =>
              /\ trk.last_switch_frame = trkLog.frame_number
              /\ trk.locked_counter = 0
        /\ SwitchRejected =>
              /\ ~SpeakerChanged
              /\ trk.last_switch_frame = trkLog.pre.last_switch_frame
              /\ trk.locked_counter = trkLog.pre.locked_counter
        /\ \A k, l \in 1..Len(trk.known_faces) :
              trk.known_faces[k].id = trk.known_faces[l].id => k = l

\* A switch away from a speaker that had been locked on for a while, with
\* more than one identity on record.
C30_Witness ==
    /\ AfterGetTarget /\ SpeakerChanged
    /\ trkLog.pre.active_speaker_id # NoId
    /\ trkLog.pre.locked_counter > 0
    /\ trk.locked_counter = 0
    /\ trk.last_switch_frame = trkLog.frame_number
    /\ Len(trk.known_faces) >= 2

\* A switch was rejected by the cooldown while the speaker's lock count was
\* positive; the count did not move.
C30_WitnessRejected ==
    /\ AfterGetTarget /\ SwitchRejected
    /\ trkLog.pre.locked_counter > 0
    /\ trk.locked_counter = trkLog.pre.locked_counter

----------------------------------------------------------------------------
(* Claims about the frame pipelines *)

\* The frames in the sink are the decoded frames, in decode order, without
\* gap or repetition.
SinkInOrder ==
    \A i \in 1..Len(sink) : sink[i].frame = run.start_frame + i - 1

C5_GuaranteedRelease ==
    run.pc = "done" => ~run.capOpen /\ ~run.encOpen

\* C13: when detect_scenes fails or returns no scenes, process_single_clip
\* goes on with exactly one scene from frame 0 to the frame count of the clip,
\* labelled TRACK, and the failure does not leave the function.
C13_SegmentationFallback ==
    run.seg \in {"failed", "empty"} =>
        /\ run.raised_at # "detect"
        /\ run.scene_boundaries = << <<0, run.nframes>> >>
        /\ run.pc \notin {"detect", "analyze"} => run.strategies = << "TRACK" >>

\* C14: a run whose encoder failed (non-zero exit status, broken pipe, writer
\* that did not open) ends by raising, with both handles released, and never
\* returns success.
C14_EncoderFailureSurfaced ==
    run.pc = "done" /\ run.enc_failed =>
        /\ run.outcome = "raised"
        /\ ~run.capOpen /\ ~run.encOpen

\* C15: a run whose video source did not open writes no frame to the sink and
\* ends by raising, never with a success return.
C15_OpenFailureFatal ==
    run.open_failed =>
        /\ Len(sink) = 0
        /\ run.pc = "done" => run.outcome = "raised"

\* C16: in a run where so far every frame had no face and no person, the
\* tracker and camera calls of every frame completed (get_target returned
\* None, get_crop_box returned a box on TRACK frames), nothing but the resize
\* or the write raised, and after every frame current_center_x and
\* target_center_x are both video_width / 2.
C16_EmptyDetectionStream ==
    frameLog.frame >= 0 /\ frameLog.quiet =>
        /\ cam.current_center_x = (Q * run.video[1]) \div 2
        /\ cam.target_center_x = (Q * run.video[1]) \div 2
        /\ frameLog.target_box = None
        /\ frameLog.strategy = "TRACK" => frameLog.ran_crop
        /\ frameLog.raised =>
               frameLog.fault = "write" \/ ResizeRaises(run.out_w, run.out_h)

\* A run of process_single_clip without any detection that force-snapped on
\* the first frame of its second scene, after a first scene of two frames or
\* more, and wrote the frame.
C16_Witness ==
    /\ run.impl = "main" /\ frameLog.quiet /\ ~frameLog.raised
    /\ frameLog.scene_index = 1 /\ frameLog.force_snap /\ frameLog.frame >= 2
    /\ frameLog.ran_person
    /\ Len(sink) = frameLog.frame + 1

\* x2 <= x1 or y2 <= y1
ZeroArea(b) == b[3] <= b[1] \/ b[4] <= b[2]

\* C17: on a TRACK frame whose crop box has zero area the frame written is the
\* full source frame resized to the output size, and every frame in the sink
\* has the fixed output width and height, both non-zero.
C17_ZeroAreaFallback ==
    /\ ( /\ frameLog.frame >= 0 /\ frameLog.strategy = "TRACK"
         /\ frameLog.fault = "none" /\ frameLog.ran_crop
         /\ ZeroArea(frameLog.crop_box) )
       => /\ ~frameLog.raised
          /\ Len(sink) > 0
          /\ sink[Len(sink)].frame = frameLog.frame
          /\ sink[Len(sink)].kind = "full"
    /\ \A i \in 1..Len(sink) :
          /\ sink[i].w = run.out_w /\ sink[i].h = run.out_h
          /\ sink[i].w > 0 /\ sink[i].h > 0

\* The last step was an iteration of the loop of process_single_clip.
AfterMainFrame == run.impl = "main" /\ frameLog.frame >= 0

\* C21: with contiguous non-empty scenes the scene index used for a frame
\* does not decrease, stays below the number of scenes, satisfies
\* start[index] <= f < end[index] for every frame before the end of the last
\* scene, and a frame whose number is the end of a scene is processed in the
\* next scene with that scene's strategy.
C21_SceneMembership ==
    AfterMainFrame =>
        LET i == frameLog.scene_index
            f == frameLog.frame
            sb == run.scene_boundaries
        IN  /\ i >= frameLog.pre_scene_index
            /\ i < Len(sb)
            /\ run.current_scene_index = i
            /\ f < sb[Len(sb)][2] => (sb[i + 1][1] <= f /\ f < sb[i + 1][2])
            /\ frameLog.strategy = run.strategies[i + 1]
            /\ \A j \in 1..(Len(sb) - 1) :
                  f = sb[j][2] => (i = j /\ frameLog.strategy = run.strategies[j + 1])

\* The first frame of the third of three scenes, whose number is the end of
\* the second scene, processed under the third scene's strategy, which is not
\* the second's.
C21_Witness ==
    /\ AfterMainFrame /\ Len(run.scene_boundaries) = 3
    /\ frameLog.frame = run.scene_boundaries[2][2]
    /\ frameLog.scene_index = 2 /\ frameLog.pre_scene_index = 1
    /\ frameLog.strategy = run.strategies[3]
    /\ run.strategies[3] # run.strategies[2]

\* The last step was a TRACK iteration of process_single_clip that reached
\* get_crop_box.
AfterMainCrop ==
    AfterMainFrame /\ frameLog.strategy = "TRACK" /\ frameLog.ran_crop

\* C22: in a TRACK scene get_crop_box is called with force_snap=True on the
\* first frame of the scene and with force_snap=False on every other frame;
\* on the first frame the crop is centred on the target, clamped into the
\* frame, whatever position panning had reached before.
C22_SnapOnSceneEntry ==
    AfterMainCrop =>
        LET lo == HalfCrop(cam)
            hi == Q * cam.video_width - HalfCrop(cam)
        IN  /\ frameLog.force_snap <=>
                   frameLog.frame = run.scene_boundaries[frameLog.scene_index + 1][1]
            /\ frameLog.force_snap =>
                   /\ cam.current_center_x = Max(lo, Min(hi, cam.target_center_x))
                   /\ frameLog.crop_box = CropBox(cam)

\* The first frame of a later scene, TRACK, on which a face far from where
\* the camera stood was found: the centre jumps onto the new target, further
\* than one pan step of 15 pixels.
C22_Witness ==
    /\ AfterMainCrop /\ frameLog.force_snap /\ frameLog.scene_index >= 1
    /\ frameLog.ran_target /\ frameLog.target_box # None
    /\ cam.current_center_x = cam.target_center_x
    /\ Abs(cam.current_center_x - frameLog.pre_cam.current_center_x) > Q * 15

\* C23: a frame of a GENERAL scene runs neither the face detector, get_target,
\* the person detector nor get_crop_box, leaves the SpeakerTracker as it was,
\* and the frame written is the general composition of the source frame at
\* the output size, with no crop box.
C23_GeneralBypass ==
    (AfterMainFrame /\ frameLog.strategy = "GENERAL") =>
        /\ ~frameLog.ran_faces /\ ~frameLog.ran_target
        /\ ~frameLog.ran_person /\ ~frameLog.ran_crop
        /\ trk = frameLog.pre_trk
        /\ ~frameLog.raised =>
               /\ Len(sink) > 0
               /\ sink[Len(sink)] =
                      OutFrame(frameLog.frame, "general", None, run.out_w, run.out_h)

\* An even-numbered frame of a GENERAL scene, written while the tracker holds
\* an active speaker with a score from an earlier TRACK scene and the camera
\* stood off centre.
C23_Witness ==
    /\ AfterMainFrame /\ frameLog.strategy = "GENERAL" /\ ~frameLog.raised
    /\ frameLog.frame % 2 = 0 /\ frameLog.frame > 0
    /\ trk.active_speaker_id # NoId
    /\ DOMAIN trk.speaker_scores # {}
    /\ frameLog.pre_cam.current_center_x # (Q * run.video[1]) \div 2
    /\ sink[Len(sink)].kind = "general"

\* The last step was an iteration of process_single_clip in a TRACK scene.
AfterMainTrack == AfterMainFrame /\ frameLog.strategy = "TRACK"

\* What get_target returned on the frame, recomputed from the tracker and
\* the candidates the call was given.
FrameFaceBox ==
    get_target(frameLog.pre_trk, frameLog.faces, frameLog.frame, run.video[1]).box

\* C24: in a TRACK scene the face detector is called exactly on the frames
\* with an even clip-wide frame number, and get_target with it (unless the
\* detector raised); on an odd frame the tracker and the camera target are
\* unchanged and only get_crop_box runs; the person detector is called
\* exactly when get_target ran and returned None.
C24_DetectionCadence ==
    AfterMainTrack =>
        /\ frameLog.ran_faces <=> frameLog.frame % 2 = 0
        /\ frameLog.ran_target <=> (frameLog.frame % 2 = 0 /\ frameLog.fault # "detect")
        /\ frameLog.frame % 2 = 1 =>
               /\ trk = frameLog.pre_trk
               /\ cam.target_center_x = frameLog.pre_cam.target_center_x
               /\ ~frameLog.ran_person /\ frameLog.ran_crop
        /\ frameLog.ran_person <=> (frameLog.ran_target /\ FrameFaceBox = None)

\* An odd frame of a TRACK scene on which the camera panned towards a target
\* set two frames before the tracker was last asked.
C24_Witness ==
    /\ AfterMainTrack /\ frameLog.frame = 3 /\ ~frameLog.raised
    /\ ~frameLog.force_snap
    /\ trk.active_speaker_id # NoId
    /\ cam.current_center_x # frameLog.pre_cam.current_center_x

\* An even frame of a TRACK scene on which get_target was given its first
\* faces and returned a box, so the person detector was not called.
C24_WitnessFallback ==
    /\ AfterMainTrack /\ frameLog.frame = 2
    /\ frameLog.ran_target /\ FrameFaceBox # None /\ ~frameLog.ran_person
    /\ ~frameLog.quiet /\ trk.next_id = 1

\* The ids of the candidates get_target built on the frame, recomputed from
\* the tracker before the frame and the faces the call was given.
FrameCandIds ==
    LET cands == get_target(frameLog.pre_trk, frameLog.faces, frameLog.frame,
                            run.video[1]).cands
    IN  { cands[i].id : i \in 1..Len(cands) }

\* A score is below 0.1
BelowThreshold(s) == 10 * s < ScoreOne

\* C26 as stated: on every frame of a TRACK scene each score is multiplied by
\* 0.85 (before the frame's candidates add theirs), and after the frame no
\* identity in the map has a score below 0.1.
C26_Original ==
    AfterMainTrack =>
        /\ \A pid \in DOMAIN frameLog.pre_trk.speaker_scores \ FrameCandIds :
              \/ pid \notin DOMAIN trk.speaker_scores
              \/ trk.speaker_scores[pid]
                     = (frameLog.pre_trk.speaker_scores[pid] * 17) \div 20
        /\ \A pid \in DOMAIN trk.speaker_scores :
              ~BelowThreshold(trk.speaker_scores[pid])

\* C26 (amended): on a frame of a TRACK scene where get_target is called,
\* every score held before the call is multiplied by 0.85 and removed when
\* the result is below 0.1, and then the call's candidates add their raw
\* scores; so after the call every identity in the map that is not one of the
\* call's candidates has a score of at least 0.1, while a candidate's score
\* can be lower. On a frame where get_target is not called the scores are
\* unchanged.
C26_ScoreDecay ==
    AfterMainTrack =>
        IF frameLog.ran_target
        THEN /\ \A pid \in DOMAIN frameLog.pre_trk.speaker_scores \ FrameCandIds :
                   LET d == (frameLog.pre_trk.speaker_scores[pid] * 17) \div 20
                   IN  IF BelowThreshold(d)
                       THEN pid \notin DOMAIN trk.speaker_scores
                       ELSE /\ pid \in DOMAIN trk.speaker_scores
                            /\ trk.speaker_scores[pid] = d
             /\ \A pid \in DOMAIN trk.speaker_scores \ FrameCandIds :
                   /\ pid \in DOMAIN frameLog.pre_trk.speaker_scores
                   /\ ~BelowThreshold(trk.speaker_scores[pid])
             /\ FrameCandIds \subseteq DOMAIN trk.speaker_scores
        ELSE trk.speaker_scores = frameLog.pre_trk.speaker_scores

\* A call removed an identity whose decayed score fell below 0.1 and entered
\* a new one, the frame's only face, with a score below 0.1.
C26_Witness ==
    /\ AfterMainTrack /\ frameLog.ran_target
    /\ \E pid \in DOMAIN frameLog.pre_trk.speaker_scores :
          pid \notin DOMAIN trk.speaker_scores
    /\ \E pid \in FrameCandIds : BelowThreshold(trk.speaker_scores[pid])

----------------------------------------------------------------------------
(* Claims about analyze_scenes_strategy, checked under ScnSpec *)

\* The last step analysed a scene to the end (no exception).
SceneAnalysed ==
    /\ Len(scn.last_obs) = 3 /\ scn.raised_at = 0
    /\ scn.pc = "loop"

\* The label given to the scene analysed last
LastLabel == scn.strategies[Len(scn.strategies)]

\* C11: a scene with at least one sample read is labelled GENERAL when the
\* average face count of the samples read is below 0.5 or above 1.2 and TRACK
\* otherwise; an average of exactly 1 gives TRACK, an average of 0 or of 2 or
\* more gives GENERAL.
C11_Thresholds ==
    SceneAnalysed /\ Len(scn.face_counts) > 0 =>
        LET total == SumSeq(scn.face_counts)
            n == Len(scn.face_counts)
        IN  /\ LastLabel = "GENERAL" <=> (2 * total < n \/ 5 * total > 6 * n)
            /\ LastLabel = "TRACK" <=> ~(2 * total < n \/ 5 * total > 6 * n)
            /\ total = n => LastLabel = "TRACK"
            /\ total = 0 => LastLabel = "GENERAL"
            /\ total >= 2 * n => LastLabel = "GENERAL"

\* A scene of the core version, analysed after an earlier one, whose two read
\* samples show one face and none: the average 0.5 is labelled TRACK.
C11_Witness ==
    /\ SceneAnalysed /\ scn.impl = "core" /\ Len(scn.strategies) >= 2
    /\ Len(scn.face_counts) = 2 /\ SumSeq(scn.face_counts) = 1
    /\ LastLabel = "TRACK"

\* C12: a scene none of whose three sample frames could be read is labelled
\* TRACK.
C12_UnreadableIsTrack ==
    (SceneAnalysed /\ \A k \in 1..3 : ~scn.last_obs[k].ret) => LastLabel = "TRACK"

\* C18: analyze_scenes_strategy always returns one label, TRACK or GENERAL,
\* per scene; when analysing a scene raises, the labels of the earlier scenes
\* are kept and that scene and all later ones are labelled TRACK; when the
\* video does not open every scene is labelled TRACK.
C18_TotalPass ==
    scn.pc = "done" =>
        /\ scn.outcome = "returned"
        /\ Len(scn.strategies) = Len(scn.scenes)
        /\ \A i \in 1..Len(scn.strategies) : scn.strategies[i] \in {"TRACK", "GENERAL"}
        /\ scn.raised_at > 0 =>
               /\ \A i \in 1..(scn.raised_at - 1) : scn.strategies[i] = scn.kept[i]
               /\ \A i \in scn.raised_at..Len(scn.scenes) : scn.strategies[i] = "TRACK"
        /\ ~scn.opened =>
               \A i \in 1..Len(scn.scenes) : scn.strategies[i] = "TRACK"

====
